---- MODULE Spec2Model ----
(***************************************************************************)
(* MediVault: the file catalog (App.tsx + FileManager.tsx) over the two    *)
(* persistence adapters of lib/backend.ts (localStorage / Supabase).       *)
(*                                                                         *)
(* Strings are sequences of one-character strings so that toLowerCase,     *)
(* includes and the < of the sort comparator are computed, not assumed.    *)
(***************************************************************************)
EXTENDS Integers, Sequences, FiniteSets, TLC

(***************************************************************************)
(* Bounds of the model                                                     *)
(***************************************************************************)
\* longest catalog the view specification draws
MaxCatalog == 2
\* files submitted for upload in one behaviour
MaxSubmits == 1
\* login and register calls in one behaviour
MaxAuthCalls == 2
\* delete clicks in one behaviour
MaxDeletes == 1
MaxTickets == 2
\* how many different strings Math.random().toString(36).substr(2, 9) yields
IdSpace == 2

(***************************************************************************)
(* Characters and JavaScript string operations                             *)
(***************************************************************************)
\* the characters used, in UTF-16 code unit order (space 32, - 45, . 46,
\* A-Z 65..90, _ 95, a-z 97..122): the index order is the order of <
Chars ==
    <<" ", "-", ".",
      "A", "B", "C", "D", "E", "F", "G", "H", "I", "J", "K", "L", "M",
      "N", "O", "P", "Q", "R", "S", "T", "U", "V", "W", "X", "Y", "Z",
      "_",
      "a", "b", "c", "d", "e", "f", "g", "h", "i", "j", "k", "l", "m",
      "n", "o", "p", "q", "r", "s", "t", "u", "v", "w", "x", "y", "z">>

\* the place of each character in Chars
OrdOf == [c \in {Chars[i] : i \in 1..Len(Chars)} |->
            CHOOSE i \in 1..Len(Chars) : Chars[i] = c]

Ord(c) == OrdOf[c]

UpperChars == {Chars[i] : i \in OrdOf["A"]..OrdOf["Z"]}

\* String.prototype.toLowerCase, character by character
LowerOf == [c \in DOMAIN OrdOf |->
              IF c \in UpperChars
              THEN Chars[OrdOf[c] - OrdOf["A"] + OrdOf["a"]] ELSE c]

LowerChar(c) == LowerOf[c]

\* String.prototype.toLowerCase
ToLowerCase(s) == [i \in 1..Len(s) |-> LowerChar(s[i])]

\* String.prototype.includes
Includes(s, t) ==
    \E i \in 0..(Len(s) - Len(t)) : SubSeq(s, i + 1, i + Len(t)) = t

\* the < of JavaScript on two strings: code units, left to right; a proper
\* prefix is smaller
StrLess(s, t) ==
    \E i \in 1..(Len(t)) :
        /\ \A j \in 1..(i - 1) : j <= Len(s) /\ s[j] = t[j]
        /\ \/ i = Len(s) + 1
           \/ i <= Len(s) /\ Ord(s[i]) < Ord(t[i])

(***************************************************************************)
(* Medical courses (App.tsx MEDICAL_COURSES)                               *)
(***************************************************************************)
GeneralMedicine ==
    <<"G", "e", "n", "e", "r", "a", "l", " ", "M", "e", "d", "i", "c", "i", "n", "e">>
Cardiology == <<"C", "a", "r", "d", "i", "o", "l", "o", "g", "y">>
Neurology == <<"N", "e", "u", "r", "o", "l", "o", "g", "y">>
Pediatrics == <<"P", "e", "d", "i", "a", "t", "r", "i", "c", "s">>
Oncology == <<"O", "n", "c", "o", "l", "o", "g", "y">>
Orthopedics == <<"O", "r", "t", "h", "o", "p", "e", "d", "i", "c", "s">>
Radiology == <<"R", "a", "d", "i", "o", "l", "o", "g", "y">>

MEDICAL_COURSES ==
    <<GeneralMedicine, Cardiology, Neurology, Pediatrics, Oncology,
      Orthopedics, Radiology>>

(***************************************************************************)
(* State                                                                   *)
(***************************************************************************)
VARIABLES
    cloud,           \* backend.ts isCloudEnabled
    apiKey,          \* whether process.env.API_KEY is set
    user,            \* App: user (<< >> is null, <<profile>> a user)
    currentView,     \* App: currentView
    isAuthModalOpen, \* App: isAuthModalOpen
    files,           \* App: files, the in-memory catalog
    searchTerm,      \* App: globalSearchTerm
    sortConfig,      \* FileManager: sortConfig
    uploadingFiles,  \* FileManager: uploadingFiles, the visible tickets
    uploads,         \* one entry per submitted file: its interval timer,
                     \* its removal timeout and its handleUpload call
    deleteCalls,     \* the handleDelete calls, in flight and settled
    loadCalls,       \* the loadData calls, in flight and settled
    authCalls,       \* the handleLogin / handleRegister calls
    fileStore,       \* persisted files: localStorage medivault_files, or
                     \* the rows of the Supabase table files
    userStore,       \* localStorage medivault_users
    alerts,          \* number of alert() calls so far
    clock,           \* the last value new Date() gave
    rowSeq,          \* rows the database has given an id
    lastClick,       \* the column header clicked last ("none" before any)
    authForm         \* AuthModal: isLogin, the four fields, error

vars ==
    <<cloud, apiKey, user, currentView, isAuthModalOpen, files, searchTerm,
      sortConfig, uploadingFiles, uploads, deleteCalls, loadCalls,
      authCalls, fileStore, userStore, alerts, clock, rowSeq,
      lastClick, authForm>>

\* user is null, or one profile
NoUser == << >>

\* AuthModal: the useState initial values
InitialForm ==
    [isLogin |-> TRUE, username |-> "", password |-> "",
     confirmPassword |-> "", email |-> "", error |-> "", loading |-> FALSE,
     pending |-> << >>]

(***************************************************************************)
(* Users (types User, backend.ts AuthService, local adapter)               *)
(***************************************************************************)
DEFAULT_ADMIN ==
    [username |-> "admin", password |-> "password123",
     email |-> "admin@medivault.com"]

\* const { password, ...safeUser } = user
SafeUser(u) == [username |-> u.username, email |-> u.email]

\* AuthService.login, cloud branch: credentials.email, or the address made
\* of the user name (no white space, lower case) and @medivault.app
EmailToUse(credentials) ==
    IF credentials.email # "" THEN credentials.email
    ELSE CASE credentials.username = "admin" -> "admin@medivault.app"
           [] credentials.username = "bob" -> "bob@medivault.app"
           [] OTHER -> "@medivault.app"

UsernameTaken == "Username is already taken"
InvalidLogin == "Invalid username or password"

\* a plausible slip: the new user is stored without looking for the name
RegisterLocalNoCheck(users, newUser) ==
    [ok |-> TRUE, users |-> Append(users, newUser), error |-> ""]

\* AuthService.register, local branch, after its delay: the users read, the
\* name looked for, the new user pushed and saved
RegisterLocal(users, newUser) ==
    IF \E i \in 1..Len(users) : users[i].username = newUser.username
    THEN [ok |-> FALSE, users |-> users, error |-> UsernameTaken]
    ELSE [ok |-> TRUE, users |-> Append(users, newUser), error |-> ""]

\* AuthService.login, local branch: users.find(name and password agree)
LoginLocal(users, credentials) ==
    LET hits == {i \in 1..Len(users) :
                    /\ users[i].username = credentials.username
                    /\ users[i].password = credentials.password}
    IN  IF hits = {}
        THEN [ok |-> FALSE, user |-> NoUser, error |-> InvalidLogin]
        ELSE [ok |-> TRUE,
              user |-> <<SafeUser(users[CHOOSE i \in hits : \A j \in hits : i <= j])>>,
              error |-> ""]

(***************************************************************************)
(* FileManager: handleSort and filteredAndSortedFiles                      *)
(***************************************************************************)
SortKeys == {"name", "medicalCourse", "size", "uploadDate"}

\* useState<SortConfig>({ key: 'uploadDate', direction: 'desc' })
InitialSortConfig == [key |-> "uploadDate", direction |-> "desc"]

\* a plausible slip: the direction toggles without looking at the key
HandleSortToggleAlways(current, key) ==
    [key |-> key,
     direction |-> IF current.direction = "asc" THEN "desc" ELSE "asc"]

\* the updater of handleSort
HandleSortConfig(current, key) ==
    [key |-> key,
     direction |-> IF current.key = key /\ current.direction = "asc"
                   THEN "desc" ELSE "asc"]

\* a plausible slip: the category is not searched
MatchesNameOnly(f, term) ==
    Includes(ToLowerCase(f.name), ToLowerCase(term))

\* the predicate of files.filter
Matches(f, term) ==
    \/ Includes(ToLowerCase(f.name), ToLowerCase(term))
    \/ Includes(ToLowerCase(f.medicalCourse), ToLowerCase(term))

\* a plausible slip: the scan starts at the second record
FilterFilesFromSecond(fs, term) ==
    LET kept == {i \in 2..Len(fs) : Matches(fs[i], term)}
    IN  [k \in 1..Cardinality(kept) |->
            fs[CHOOSE i \in kept : Cardinality({j \in kept : j < i}) = k - 1]]

\* Array.prototype.filter: the elements that satisfy the predicate, in order
RECURSIVE FilterFiles(_, _)
FilterFiles(fs, term) ==
    IF fs = <<>> THEN <<>>
    ELSE IF Matches(Head(fs), term)
         THEN <<Head(fs)>> \o FilterFiles(Tail(fs), term)
         ELSE FilterFiles(Tail(fs), term)

\* aValue < bValue for a[sortConfig.key], b[sortConfig.key]
ValueLess(a, b, key) ==
    CASE key = "name" -> StrLess(a.name, b.name)
      [] key = "medicalCourse" -> StrLess(a.medicalCourse, b.medicalCourse)
      [] key = "size" -> a.size < b.size
      [] key = "uploadDate" -> a.uploadDate < b.uploadDate

\* a plausible slip: the direction is ignored
CompareAscOnly(a, b, cfg) ==
    IF ValueLess(a, b, cfg.key) THEN -1
    ELSE IF ValueLess(b, a, cfg.key) THEN 1
    ELSE 0

\* the comparator handed to sort
Compare(a, b, cfg) ==
    IF ValueLess(a, b, cfg.key)
    THEN (IF cfg.direction = "asc" THEN -1 ELSE 1)
    ELSE IF ValueLess(b, a, cfg.key)
         THEN (IF cfg.direction = "asc" THEN 1 ELSE -1)
         ELSE 0

\* a plausible slip: x is put before the elements that compare equal to it
RECURSIVE InsertSortedBeforeEqual(_, _, _)
InsertSortedBeforeEqual(s, x, cfg) ==
    IF s = <<>> THEN <<x>>
    ELSE IF Compare(Head(s), x, cfg) >= 0
         THEN <<x>> \o s
         ELSE <<Head(s)>> \o InsertSortedBeforeEqual(Tail(s), x, cfg)

\* x put into the sorted sequence s behind every element that does not
\* compare greater than it
RECURSIVE InsertSorted(_, _, _)
InsertSorted(s, x, cfg) ==
    IF s = <<>> THEN <<x>>
    ELSE IF Compare(Head(s), x, cfg) > 0
         THEN <<x>> \o s
         ELSE <<Head(s)>> \o InsertSorted(Tail(s), x, cfg)

\* Array.prototype.sort: stable (ECMAScript 2019), on a copy
RECURSIVE SortFiles(_, _, _)
SortFiles(fs, acc, cfg) ==
    IF fs = <<>> THEN acc
    ELSE SortFiles(Tail(fs), InsertSorted(acc, Head(fs), cfg), cfg)

\* useMemo(() => filter then sort, [files, searchTerm, sortConfig])
VisibleRows(catalog, term, cfg) == SortFiles(FilterFiles(catalog, term), <<>>, cfg)

filteredAndSortedFiles == VisibleRows(files, searchTerm, sortConfig)

(***************************************************************************)
(* Classification (App.tsx classifyFileLocal, classifyDocument)            *)
(***************************************************************************)
\* the regular expressions of classifyFileLocal, in the order they are tried:
\* an alternation of literals matches iff one of them is a substring
LocalRules ==
    <<
      [course |-> Cardiology,
       words |-> {<<"h", "e", "a", "r", "t">>,
                  <<"c", "a", "r", "d", "i", "o">>,
                  <<"e", "c", "g">>,
                  <<"e", "k", "g">>,
                  <<"v", "a", "s", "c", "u", "l", "a", "r">>,
                  <<"b", "p">>,
                  <<"a", "o", "r", "t", "a">>}],
      [course |-> Neurology,
       words |-> {<<"b", "r", "a", "i", "n">>,
                  <<"n", "e", "u", "r", "o">>,
                  <<"s", "t", "r", "o", "k", "e">>,
                  <<"s", "p", "i", "n", "e">>,
                  <<"n", "e", "r", "v", "e">>,
                  <<"h", "e", "a", "d">>,
                  <<"m", "e", "n", "t", "a", "l">>}],
      [course |-> Pediatrics,
       words |-> {<<"c", "h", "i", "l", "d">>,
                  <<"p", "e", "d">>,
                  <<"i", "n", "f", "a", "n", "t">>,
                  <<"b", "a", "b", "y">>,
                  <<"g", "r", "o", "w", "t", "h">>,
                  <<"v", "a", "c", "c", "i", "n", "e">>}],
      [course |-> Oncology,
       words |-> {<<"c", "a", "n", "c", "e", "r">>,
                  <<"t", "u", "m", "o", "r">>,
                  <<"c", "h", "e", "m", "o">>,
                  <<"o", "n", "c", "o">>,
                  <<"m", "a", "s", "s">>,
                  <<"b", "i", "o", "p", "s", "y">>,
                  <<"m", "a", "l", "i", "g", "n", "a", "n", "t">>}],
      [course |-> Orthopedics,
       words |-> {<<"b", "o", "n", "e">>,
                  <<"f", "r", "a", "c", "t", "u", "r", "e">>,
                  <<"o", "r", "t", "h", "o">>,
                  <<"k", "n", "e", "e">>,
                  <<"j", "o", "i", "n", "t">>,
                  <<"h", "i", "p">>,
                  <<"m", "u", "s", "c", "l", "e">>}],
      [course |-> Radiology,
       words |-> {<<"x", "r", "a", "y">>,
                  <<"x", "-", "r", "a", "y">>,
                  <<"m", "r", "i">>,
                  <<"c", "t">>,
                  <<"s", "c", "a", "n">>,
                  <<"u", "l", "t", "r", "a", "s", "o", "u", "n", "d">>,
                  <<"i", "m", "a", "g", "e">>,
                  <<"d", "i", "c", "o", "m">>}]
    >>

\* a plausible slip: the file name is matched as it is, not lower-cased
ClassifyFileLocalCaseSensitive(filename) ==
    LET hits == {r \in 1..Len(LocalRules) :
                    \E w \in LocalRules[r].words : Includes(filename, w)}
    IN  IF hits = {} THEN GeneralMedicine
        ELSE LocalRules[CHOOSE r \in hits : \A q \in hits : r <= q].course

\* classifyFileLocal: the course of the first rule one of whose words occurs
\* in the lower-cased file name, else General Medicine
ClassifyFileLocal(filename) ==
    LET lower == ToLowerCase(filename)
        hits == {r \in 1..Len(LocalRules) :
                    \E w \in LocalRules[r].words : Includes(lower, w)}
    IN  IF hits = {} THEN GeneralMedicine
        ELSE LocalRules[CHOOSE r \in hits : \A q \in hits : r <= q].course

\* String.prototype.trim, for the white space the model has (the space)
RECURSIVE TrimLeft(_)
TrimLeft(s) == IF s # << >> /\ Head(s) = " " THEN TrimLeft(Tail(s)) ELSE s

RECURSIVE TrimRight(_)
TrimRight(s) ==
    IF s # << >> /\ s[Len(s)] = " " THEN TrimRight(SubSeq(s, 1, Len(s) - 1)) ELSE s

Trim(s) == TrimRight(TrimLeft(s))

\* the outcomes of ai.models.generateContent: a reply with text, a reply
\* without text (response.text undefined), a thrown error
AiText(text) == [kind |-> "text", text |-> text]
AiNoText == [kind |-> "none", text |-> << >>]
AiError == [kind |-> "error", text |-> << >>]

\* a plausible slip: a reply that is no course gives General Medicine, and
\* the heuristic is used only when there is no reply
ClassifyDocumentNoFallback(filename, hasKey, reply) ==
    IF hasKey /\ reply.kind = "text"
    THEN LET text == Trim(reply.text)
             hits == {c \in 1..Len(MEDICAL_COURSES) :
                        ToLowerCase(MEDICAL_COURSES[c]) = ToLowerCase(text)}
         IN  IF hits # {}
             THEN MEDICAL_COURSES[CHOOSE c \in hits : \A d \in hits : c <= d]
             ELSE GeneralMedicine
    ELSE ClassifyFileLocal(filename)

\* classifyDocument(file), given whether process.env.API_KEY is set and what
\* the model call did
ClassifyDocument(filename, hasKey, reply) ==
    IF hasKey /\ reply.kind = "text"
    THEN LET text == Trim(reply.text)
             hits == {c \in 1..Len(MEDICAL_COURSES) :
                        ToLowerCase(MEDICAL_COURSES[c]) = ToLowerCase(text)}
         IN  IF text # << >> /\ hits # {}
             THEN MEDICAL_COURSES[CHOOSE c \in hits : \A d \in hits : c <= d]
             ELSE ClassifyFileLocal(filename)
    ELSE ClassifyFileLocal(filename)

\* type StoredFile
StoredFile(id, name, type, size, uploadDate, medicalCourse, content) ==
    [id |-> id, name |-> name, type |-> type, size |-> size,
     uploadDate |-> uploadDate, medicalCourse |-> medicalCourse,
     content |-> content]

(***************************************************************************)
(* Persistence (backend.ts FileService over LocalBackend / Supabase)       *)
(***************************************************************************)
\* Date.prototype.toISOString / JSON.stringify of a Date: text that carries
\* the same millisecond
ToISOString(ms) == [iso |-> ms]

\* new Date(text)
ParseDate(text) == text.iso

\* the value of a property an object does not have
Undefined == <<"undefined">>

\* uploadFiles, local branch: the fields kept of one file (JSON.stringify
\* turns the Date into text, content is dropped)
LocalRow(f) ==
    [id |-> f.id, name |-> f.name, type |-> f.type, size |-> f.size,
     uploadDate |-> ToISOString(f.uploadDate), medicalCourse |-> f.medicalCourse]

\* uploadFiles, cloud branch: the row inserted for one file; the database
\* fills in the id column
CloudRow(f, dbId, now) ==
    [id |-> dbId, name |-> f.name, type |-> f.type, size |-> f.size,
     medical_course |-> f.medicalCourse, created_at |-> ToISOString(now)]

\* getAllFiles, local branch
GetAllFilesLocal(rawFiles) ==
    [i \in 1..Len(rawFiles) |->
        StoredFile(rawFiles[i].id, rawFiles[i].name, rawFiles[i].type,
                   rawFiles[i].size, ParseDate(rawFiles[i].uploadDate),
                   rawFiles[i].medicalCourse, "placeholder")]

\* getAllFiles, cloud branch: { ...f, uploadDate, content }; a row has the
\* column medical_course and no property medicalCourse
GetAllFilesCloud(data) ==
    [i \in 1..Len(data) |->
        StoredFile(data[i].id, data[i].name, data[i].type, data[i].size,
                   ParseDate(data[i].created_at), Undefined, "placeholder")]

\* files.filter(f => f.id !== id), on rows and on catalog records alike
RECURSIVE WithoutId(_, _)
WithoutId(fs, id) ==
    IF fs = << >> THEN << >>
    ELSE IF Head(fs).id # id
         THEN <<Head(fs)>> \o WithoutId(Tail(fs), id)
         ELSE WithoutId(Tail(fs), id)

\* FileManager's filter calls f.medicalCourse.toLowerCase() on every record
\* whose name does not contain the search term: for a record without the
\* property the render throws, and React then unmounts the whole tree.
\* From then on no handler of the page can be reached and state setters do
\* nothing.
RenderThrows ==
    /\ currentView = "DASHBOARD"
    /\ \E i \in 1..Len(files) :
          /\ files[i].medicalCourse = Undefined
          /\ ~Includes(ToLowerCase(files[i].name), ToLowerCase(searchTerm))

Alive == ~RenderThrows

(***************************************************************************)
(* The view on its own: a loaded catalog, the search box and the sortable  *)
(* column headers                                                          *)
(***************************************************************************)
HeartScanPdf ==
    <<"h", "e", "a", "r", "t", "_", "s", "c", "a", "n", ".", "p", "d", "f">>
GrowthChartPng ==
    <<"g", "r", "o", "w", "t", "h", "_", "c", "h", "a", "r", "t", ".", "p", "n", "g">>
EcgPdfUpper == <<"E", "C", "G", ".", "P", "D", "F">>

SampleNames == {HeartScanPdf, GrowthChartPng, EcgPdfUpper}
SampleCourses == {Cardiology, Pediatrics}
\* size and upload time (ms), with ties on each
SampleSizeDates == {<<2048, 1>>, <<0, 2>>}

\* search terms: empty, a name part, the same in capitals, a category part,
\* one that matches nothing
SearchTerms ==
    {<< >>, <<"s", "c", "a", "n">>, <<"S", "C", "A", "N">>,
     <<"c", "a", "r", "d">>, <<"x">>}

\* the catalogs of length n whose i-th record has identifier i
RECURSIVE CatalogsOfLen(_)
CatalogsOfLen(n) ==
    IF n = 0 THEN {<< >>}
    ELSE {Append(c, StoredFile(n, nm, "application/pdf", sd[1], sd[2], mc,
                                 "placeholder")) :
            c \in CatalogsOfLen(n - 1), nm \in SampleNames,
            sd \in SampleSizeDates, mc \in SampleCourses}

ViewCatalogs == UNION {CatalogsOfLen(n) : n \in 0..MaxCatalog}

\* a user is logged in and the dashboard shows; nothing is in flight
Dashboard ==
    /\ user = <<SafeUser(DEFAULT_ADMIN)>>
    /\ currentView = "DASHBOARD"
    /\ isAuthModalOpen = FALSE
    /\ searchTerm = << >>
    /\ sortConfig = InitialSortConfig
    /\ uploadingFiles = << >>
    /\ uploads = << >>
    /\ deleteCalls = << >>
    /\ loadCalls = << >>
    /\ authCalls = << >>
    /\ alerts = 0
    /\ clock = 0
    /\ rowSeq = 0
    /\ lastClick = "none"
    /\ authForm = InitialForm

InitView ==
    /\ cloud = FALSE
    /\ apiKey = FALSE
    /\ Dashboard
    /\ files \in ViewCatalogs
    /\ fileStore = << >>
    /\ userStore = <<DEFAULT_ADMIN>>

\* a click on a column header: handleSort(key)
HandleSort(key) ==
    /\ Alive
    /\ currentView = "DASHBOARD"
    /\ sortConfig' = HandleSortConfig(sortConfig, key)
    /\ lastClick' = key
    /\ UNCHANGED <<cloud, apiKey, user, currentView, isAuthModalOpen, files,
                   searchTerm, uploadingFiles, uploads, deleteCalls,
                   loadCalls, authCalls, fileStore, userStore, alerts,
                   clock, rowSeq, authForm>>

\* typing in the Navbar search box (shown to a logged-in user):
\* onSearchChange = setGlobalSearchTerm
SetSearchTerm(term) ==
    /\ Alive
    /\ user # NoUser
    /\ searchTerm' = term
    /\ UNCHANGED <<cloud, apiKey, user, currentView, isAuthModalOpen, files,
                   sortConfig, uploadingFiles, uploads, deleteCalls,
                   loadCalls, authCalls, fileStore, userStore, alerts,
                   clock, rowSeq, lastClick,
                   authForm>>

NextView ==
    \/ \E key \in SortKeys : HandleSort(key)
    \/ \E term \in SearchTerms : SetSearchTerm(term)

SpecView == InitView /\ [][NextView]_vars

(***************************************************************************)
(* Claims about the view                                                   *)
(***************************************************************************)
\* C1: setSort(key) makes key the active key; the direction is the flip of
\* the previous direction when key was already active, and ascending when
\* another key was active (so switching away and back ends ascending).
\* The sort config changes in handleSort steps only.
C1_SetSortTransition ==
    [][sortConfig' # sortConfig =>
        /\ searchTerm' = searchTerm
        /\ sortConfig'.key = lastClick'
        /\ sortConfig'.direction =
              IF lastClick' = sortConfig.key
              THEN (IF sortConfig.direction = "asc" THEN "desc" ELSE "asc")
              ELSE "asc"]_vars

\* a header other than the initial one was clicked twice: flipped to
\* descending
C1_Witness ==
    lastClick = "name" /\ sortConfig = [key |-> "name", direction |-> "desc"]

\* the search predicate, character by character: some alignment of the term
\* inside s agrees with it up to letter case
ContainsIgnoringCase(s, term) ==
    \E off \in 0..(Len(s) - Len(term)) :
        \A k \in 1..Len(term) : LowerChar(s[off + k]) = LowerChar(term[k])

MatchingIndexes ==
    {i \in 1..Len(files) :
        \/ ContainsIgnoringCase(files[i].name, searchTerm)
        \/ ContainsIgnoringCase(files[i].medicalCourse, searchTerm)}

SetField(calls, i, call) == [calls EXCEPT ![i] = call]

\* Navbar "Login" button (shown when no user): onLoginClick
OpenAuthModal ==
    /\ Alive
    /\ user = NoUser
    /\ ~isAuthModalOpen
    /\ isAuthModalOpen' = TRUE
    /\ UNCHANGED <<cloud, apiKey, user, currentView, files, searchTerm,
                   sortConfig, uploadingFiles, uploads, deleteCalls,
                   loadCalls, authCalls, fileStore, userStore, alerts,
                   clock, rowSeq, lastClick,
                   authForm>>

\* AuthModal onClose
CloseAuthModal ==
    /\ Alive
    /\ isAuthModalOpen
    /\ isAuthModalOpen' = FALSE
    /\ UNCHANGED <<cloud, apiKey, user, currentView, files, searchTerm,
                   sortConfig, uploadingFiles, uploads, deleteCalls,
                   loadCalls, authCalls, fileStore, userStore, alerts,
                   clock, rowSeq, lastClick,
                   authForm>>

\* a plausible slip: the dashboard is shown without looking at user
HandleGetStartedNoCheck ==
    /\ Alive
    /\ currentView = "LANDING"
    /\ ~isAuthModalOpen
    /\ currentView' = "DASHBOARD"
    /\ UNCHANGED <<cloud, apiKey, user, isAuthModalOpen, files, searchTerm,
                   sortConfig, uploadingFiles, uploads, deleteCalls,
                   loadCalls, authCalls, fileStore, userStore, alerts, clock,
                   rowSeq, lastClick, authForm>>

\* Hero "Get started" button (the landing view): handleGetStarted
HandleGetStarted ==
    /\ Alive
    /\ currentView = "LANDING"
    /\ ~isAuthModalOpen
    /\ IF user # NoUser
       THEN currentView' = "DASHBOARD" /\ UNCHANGED isAuthModalOpen
       ELSE isAuthModalOpen' = TRUE /\ UNCHANGED currentView
    /\ UNCHANGED <<cloud, apiKey, user, files, searchTerm, sortConfig,
                   uploadingFiles, uploads, deleteCalls, loadCalls,
                   authCalls, fileStore, userStore, alerts, clock, rowSeq,
                   lastClick,
                   authForm>>

NoCredentials == [username |-> "", password |-> "", email |-> ""]

AuthCall(kind, credentials) ==
    [kind |-> kind, user |-> credentials, phase |-> "wait", ok |-> FALSE,
     error |-> ""]

\* the modal's form submitted in login mode: handleLogin(credentials) starts
\* and waits in AuthService.login
HandleLogin(credentials) ==
    /\ Alive
    /\ isAuthModalOpen
    /\ Len(authCalls) < MaxAuthCalls
    /\ authCalls' = Append(authCalls, AuthCall("login", credentials))
    /\ UNCHANGED <<cloud, apiKey, user, currentView, isAuthModalOpen, files,
                   searchTerm, sortConfig, uploadingFiles, uploads,
                   deleteCalls, loadCalls, fileStore, userStore, alerts,
                   clock, rowSeq, lastClick,
                   authForm>>

\* the modal's form submitted in register mode (its validations passed):
\* handleRegister(newUser) starts and waits in AuthService.register
HandleRegister(newUser) ==
    /\ Alive
    /\ isAuthModalOpen
    /\ Len(authCalls) < MaxAuthCalls
    /\ authCalls' = Append(authCalls, AuthCall("register", newUser))
    /\ UNCHANGED <<cloud, apiKey, user, currentView, isAuthModalOpen, files,
                   searchTerm, sortConfig, uploadingFiles, uploads,
                   deleteCalls, loadCalls, fileStore, userStore, alerts,
                   clock, rowSeq, lastClick,
                   authForm>>

(***************************************************************************)
(* AuthModal: the form of the modal.  The component stays mounted while    *)
(* the modal is closed (it renders null), so its state is kept.  pending   *)
(* holds what a submission that passed the validations carries through its *)
(* 600 ms delay                                                            *)
(***************************************************************************)
MinPasswordLength == 6

RequiredFieldsMessage == "Please fill in all required fields"
EmailRequiredMessage == "Email is required for registration"
PasswordMismatchMessage == "Passwords do not match"
PasswordLengthMessage == "Password must be at least 6 characters"

\* a plausible slip: the length of the password is checked before the match
ValidationErrorLengthFirst(f) ==
    IF f.username = "" \/ f.password = "" THEN RequiredFieldsMessage
    ELSE IF f.isLogin THEN ""
    ELSE IF f.email = "" THEN EmailRequiredMessage
    ELSE IF Len(f.password) < MinPasswordLength THEN PasswordLengthMessage
    ELSE IF f.password # f.confirmPassword THEN PasswordMismatchMessage
    ELSE ""

\* the message of the Error the validations of handleSubmit throw, "" when
\* they all pass
ValidationError(f) ==
    IF f.username = "" \/ f.password = "" THEN RequiredFieldsMessage
    ELSE IF f.isLogin THEN ""
    ELSE IF f.email = "" THEN EmailRequiredMessage
    ELSE IF f.password # f.confirmPassword THEN PasswordMismatchMessage
    ELSE IF Len(f.password) < MinPasswordLength THEN PasswordLengthMessage
    ELSE ""

FormFields == {"username", "password", "confirmPassword", "email"}

\* onChange of an input of the form; the confirmation and the email inputs
\* are rendered in registration mode only
SetFormField(field, value) ==
    /\ Alive
    /\ isAuthModalOpen
    /\ field \in FormFields
    /\ field \in {"confirmPassword", "email"} => ~authForm.isLogin
    /\ authForm[field] # value
    /\ authForm' = [authForm EXCEPT ![field] = value]
    /\ UNCHANGED <<cloud, apiKey, user, currentView, isAuthModalOpen, files,
                   searchTerm, sortConfig, uploadingFiles, uploads,
                   deleteCalls, loadCalls, authCalls, fileStore, userStore,
                   alerts, clock, rowSeq, lastClick>>
\* the link under the form: switchMode
SwitchMode ==
    /\ Alive
    /\ isAuthModalOpen
    /\ authForm' = [authForm EXCEPT !.isLogin = ~authForm.isLogin,
                                    !.error = "", !.username = "",
                                    !.password = "", !.confirmPassword = "",
                                    !.email = ""]
    /\ UNCHANGED <<cloud, apiKey, user, currentView, isAuthModalOpen, files,
                   searchTerm, sortConfig, uploadingFiles, uploads,
                   deleteCalls, loadCalls, authCalls, fileStore, userStore,
                   alerts, clock, rowSeq, lastClick>>
\* what the submission hands to onLogin / onRegister
SubmittedCall(f) ==
    [kind |-> IF f.isLogin THEN "login" ELSE "register",
     user |-> [username |-> f.username, password |-> f.password,
               email |-> IF f.isLogin THEN "" ELSE f.email]]

\* the submit button (disabled while loading): handleSubmit up to its await.
\* A failed validation throws before the await, so the catch and the
\* finally run in the same turn
HandleSubmit ==
    /\ Alive
    /\ isAuthModalOpen
    /\ ~authForm.loading
    /\ Len(authCalls) < MaxAuthCalls
    /\ LET message == ValidationError(authForm)
       IN  authForm' =
             IF message # ""
             THEN [authForm EXCEPT !.error = message]
             ELSE [authForm EXCEPT !.error = "", !.loading = TRUE,
                                   !.pending = <<SubmittedCall(authForm)>>]
    /\ UNCHANGED <<cloud, apiKey, user, currentView, isAuthModalOpen, files,
                   searchTerm, sortConfig, uploadingFiles, uploads,
                   deleteCalls, loadCalls, authCalls, fileStore, userStore,
                   alerts, clock, rowSeq, lastClick>>
\* handleSubmit after its 600 ms: onLogin / onRegister is called with the
\* values of the submission and not awaited, so handleLogin / handleRegister
\* starts and waits in AuthService, nothing is thrown here, and the finally
\* sets loading to false.  The timeout fires whether or not the modal is
\* still open
SubmitCall ==
    /\ authForm.pending # << >>
    /\ authCalls' = Append(authCalls,
                           AuthCall(authForm.pending[1].kind,
                                    authForm.pending[1].user))
    /\ authForm' = [authForm EXCEPT !.loading = FALSE, !.pending = << >>]
    /\ UNCHANGED <<cloud, apiKey, user, currentView, isAuthModalOpen, files,
                   searchTerm, sortConfig, uploadingFiles, uploads,
                   deleteCalls, loadCalls, fileStore, userStore, alerts,
                   clock, rowSeq, lastClick>>

\* what AuthService.login / register answer after their delay; serverOk is
\* whether Supabase accepts (cloud adapter only)
AuthAnswer(c, serverOk) ==
    IF cloud
    THEN [ok |-> serverOk,
          user |-> <<[username |-> c.user.username,
                      email |-> IF c.kind = "login" THEN EmailToUse(c.user)
                                ELSE c.user.email]>>,
          users |-> userStore,
          error |-> IF serverOk THEN "" ELSE "supabase"]
    ELSE IF c.kind = "login"
         THEN LET r == LoginLocal(userStore, c.user)
              IN  [ok |-> r.ok, user |-> r.user, users |-> userStore,
                   error |-> r.error]
         ELSE LET r == RegisterLocal(userStore, c.user)
              IN  [ok |-> r.ok, user |-> <<SafeUser(c.user)>>,
                   users |-> r.users, error |-> r.error]

\* the [user] effect of App: loadData() calls getAllFiles when a user is set
LoadCall == [phase |-> "wait", ok |-> FALSE, rows |-> << >>]

\* the continuation of handleLogin / handleRegister after the await: on
\* success setUser, setIsAuthModalOpen(false), setCurrentView(DASHBOARD),
\* and the [user] effect starts loadData; on failure the error is re-thrown
AuthSettle(i, serverOk) ==
    /\ i \in 1..Len(authCalls)
    /\ authCalls[i].phase = "wait"
    /\ cloud \/ serverOk
    /\ LET r == AuthAnswer(authCalls[i], serverOk)
       IN  /\ authCalls' = SetField(authCalls, i,
                 [kind |-> authCalls[i].kind, user |-> NoCredentials,
                  phase |-> "done", ok |-> r.ok, error |-> r.error])
           /\ userStore' = r.users
           /\ IF r.ok /\ Alive
              THEN /\ user' = r.user
                   /\ isAuthModalOpen' = FALSE
                   /\ currentView' = "DASHBOARD"
                   /\ loadCalls' = Append(loadCalls, LoadCall)
              ELSE UNCHANGED <<user, isAuthModalOpen, currentView, loadCalls>>
    /\ UNCHANGED <<cloud, apiKey, files, searchTerm, sortConfig,
                   uploadingFiles, uploads, deleteCalls, fileStore, alerts,
                   clock, rowSeq, lastClick,
                   authForm>>

\* Navbar "Logout" button (shown to a user): handleLogout.  The view goes
\* back to the landing page, so FileManager unmounts and its state
\* (sortConfig, uploadingFiles) is gone; its interval timers are not cleared
HandleLogout ==
    /\ Alive
    /\ user # NoUser
    /\ user' = NoUser
    /\ files' = << >>
    /\ searchTerm' = << >>
    /\ currentView' = "LANDING"
    /\ sortConfig' = InitialSortConfig
    /\ uploadingFiles' = << >>
    /\ uploads' = [i \in 1..Len(uploads) |-> [uploads[i] EXCEPT !.mounted = FALSE]]
    /\ UNCHANGED <<cloud, apiKey, isAuthModalOpen, deleteCalls, loadCalls,
                   authCalls, fileStore, userStore, alerts, clock, rowSeq,
                   lastClick,
                   authForm>>

\* cloud adapter: Supabase answers the select('*') of getAllFiles, with the
\* rows of that moment or with an error
LoadServe(i, serverOk) ==
    /\ cloud
    /\ i \in 1..Len(loadCalls)
    /\ loadCalls[i].phase = "wait"
    /\ loadCalls' = SetField(loadCalls, i,
          [phase |-> "reply", ok |-> serverOk,
           rows |-> IF serverOk THEN fileStore ELSE << >>])
    /\ UNCHANGED <<cloud, apiKey, user, currentView, isAuthModalOpen, files,
                   searchTerm, sortConfig, uploadingFiles, uploads,
                   deleteCalls, authCalls, fileStore, userStore, alerts,
                   clock, rowSeq, lastClick,
                   authForm>>

\* loadData continues after getAllFiles: setFiles(fetchedFiles).  The cloud
\* adapter answers [] on an error; the local adapter throws when the stored
\* text cannot be read (readOk false) and loadData only logs that
LoadSettle(i, readOk) ==
    /\ i \in 1..Len(loadCalls)
    /\ loadCalls[i].phase = IF cloud THEN "reply" ELSE "wait"
    /\ cloud => readOk
    /\ LET ok == IF cloud THEN loadCalls[i].ok ELSE readOk
           fetched == IF cloud THEN GetAllFilesCloud(loadCalls[i].rows)
                      ELSE GetAllFilesLocal(fileStore)
       IN  /\ loadCalls' = SetField(loadCalls, i,
                 [phase |-> "done", ok |-> ok, rows |-> << >>])
           /\ files' = IF Alive /\ (cloud \/ readOk) THEN fetched ELSE files
    /\ UNCHANGED <<cloud, apiKey, user, currentView, isAuthModalOpen,
                   searchTerm, sortConfig, uploadingFiles, uploads,
                   deleteCalls, authCalls, fileStore, userStore, alerts,
                   clock, rowSeq, lastClick,
                   authForm>>

(***************************************************************************)
(* FileManager.simulateUploads and App.handleUpload                        *)
(***************************************************************************)
\* const speed = 5 + Math.random() * 15: the whole numbers of [5, 20)
SpeedMin == 5
SpeedSpan == 15
Speeds == SpeedMin..(SpeedMin + SpeedSpan - 1)
\* the fastest only, where several files are in flight
FastSpeeds == {SpeedMin + SpeedSpan - 1}
\* if (currentProgress >= 100)
FullProgress == 100

\* Math.random().toString(36).substr(2, 9): nothing keeps two draws apart
RandomIds == 1..IdSpace
\* the id column the database fills in; never one of the drawn ids
DbId(n) == 0 - n

\* the File objects a user can pick: one with a MIME type, one without
HeartScanFile == [name |-> HeartScanPdf, type |-> "application/pdf", size |-> 2048]
NotesFile == [name |-> <<"n", "o", "t", "e", "s">>, type |-> "", size |-> 0]
PickFiles == {HeartScanFile, NotesFile}

\* what the model call may do when a key is set: a known course in another
\* letter case and with white space around it, an unknown text, no text,
\* an error
AiReplies ==
    {AiText(<<" ", "n", "e", "u", "r", "o", "l", "o", "g", "y", " ">>),
     AiText(<<"n", "o", "n", "e">>), AiNoText, AiError}

\* one element of newUploads
NewTicket(id, file) ==
    [id |-> id, file |-> file, progress |-> 0, status |-> "uploading"]

\* the closure of one newUploads.forEach round (currentProgress, speed, the
\* interval), the removal timeout and the handleUpload call it leads to;
\* reply is what the model call of classifyDocument did (kept as it is
\* when no call is made), calls counts the FileService.uploadFiles calls
\* made for the file
NewUpload(id, file, speed) ==
    [id |-> id, file |-> file, currentProgress |-> 0, speed |-> speed,
     timer |-> TRUE, mounted |-> TRUE, removal |-> "none", call |-> "none",
     reply |-> AiError, record |-> << >>, ok |-> FALSE, calls |-> 0]

\* a plausible slip: the progress is not cut at 100
NextProgressUncapped(currentProgress, speed) == currentProgress + speed

\* currentProgress += speed; if (currentProgress >= 100) currentProgress = 100
NextProgress(currentProgress, speed) ==
    IF currentProgress + speed >= FullProgress THEN FullProgress
    ELSE currentProgress + speed

\* prev.map(item => item.id === id ? {...item, progress: 100, status: 'success'} : item)
SetTicket(tickets, id) ==
    [k \in 1..Len(tickets) |->
        IF tickets[k].id = id
        THEN [tickets[k] EXCEPT !.progress = FullProgress, !.status = "success"]
        ELSE tickets[k]]

\* prev.map(item => item.id === id ? {...item, progress: currentProgress} : item)
SetTicketProgress(tickets, id, progress) ==
    [k \in 1..Len(tickets) |->
        IF tickets[k].id = id THEN [tickets[k] EXCEPT !.progress = progress]
        ELSE tickets[k]]

\* prev.filter(item => item.id !== id)
RECURSIVE WithoutTicket(_, _)
WithoutTicket(tickets, id) ==
    IF tickets = << >> THEN << >>
    ELSE IF Head(tickets).id = id THEN WithoutTicket(Tail(tickets), id)
         ELSE <<Head(tickets)>> \o WithoutTicket(Tail(tickets), id)

\* a state setter of FileManager reaches the component that made the
\* closure only while that component is mounted
Mounted(i) == uploads[i].mounted /\ Alive

\* files dropped or chosen: simulateUploads(newFiles); ids and speeds are
\* the Math.random() draws, one per file
SimulateUploads(newFiles, ids, speeds) ==
    /\ Alive
    /\ currentView = "DASHBOARD"
    /\ Len(newFiles) > 0
    /\ uploadingFiles' = uploadingFiles \o
          [k \in 1..Len(newFiles) |-> NewTicket(ids[k], newFiles[k])]
    /\ uploads' = uploads \o
          [k \in 1..Len(newFiles) |-> NewUpload(ids[k], newFiles[k], speeds[k])]
    /\ UNCHANGED <<cloud, apiKey, user, currentView, isAuthModalOpen, files,
                   searchTerm, sortConfig, deleteCalls, loadCalls, authCalls,
                   fileStore, userStore, alerts, clock, rowSeq, lastClick,
                   authForm>>

\* one run of the interval callback of upload i
Tick(i) ==
    /\ i \in 1..Len(uploads)
    /\ uploads[i].timer
    /\ LET u == uploads[i]
           p == NextProgress(u.currentProgress, u.speed)
       IN  IF p >= FullProgress
           THEN /\ uploads' = SetField(uploads, i,
                      [u EXCEPT !.currentProgress = p, !.timer = FALSE,
                                !.removal = "pending", !.call = "classify"])
                /\ uploadingFiles' = IF Mounted(i)
                                     THEN SetTicket(uploadingFiles, u.id)
                                     ELSE uploadingFiles
           ELSE /\ uploads' = SetField(uploads, i, [u EXCEPT !.currentProgress = p])
                /\ uploadingFiles' = IF Mounted(i)
                                     THEN SetTicketProgress(uploadingFiles, u.id, p)
                                     ELSE uploadingFiles
    /\ UNCHANGED <<cloud, apiKey, user, currentView, isAuthModalOpen, files,
                   searchTerm, sortConfig, deleteCalls, loadCalls, authCalls,
                   fileStore, userStore, alerts, clock, rowSeq, lastClick,
                   authForm>>

\* the setTimeout(..., 1500) callback of upload i
RemoveTicket(i) ==
    /\ i \in 1..Len(uploads)
    /\ uploads[i].removal = "pending"
    /\ uploads' = SetField(uploads, i, [uploads[i] EXCEPT !.removal = "done"])
    /\ uploadingFiles' = IF Mounted(i)
                         THEN WithoutTicket(uploadingFiles, uploads[i].id)
                         ELSE uploadingFiles
    /\ UNCHANGED <<cloud, apiKey, user, currentView, isAuthModalOpen, files,
                   searchTerm, sortConfig, deleteCalls, loadCalls, authCalls,
                   fileStore, userStore, alerts, clock, rowSeq, lastClick,
                   authForm>>

\* the record handleUpload builds for one file
NewStoredFile(file, id, now, category) ==
    StoredFile(id, file.name,
               IF file.type = "" THEN "application/octet-stream" ELSE file.type,
               file.size, now, category, "file")

\* handleUpload, step 1: classifyDocument answered, the record is built
\* (generateId(), new Date()) and FileService.uploadFiles starts
Classified(i, reply, id) ==
    /\ i \in 1..Len(uploads)
    /\ uploads[i].call = "classify"
    /\ apiKey \/ reply = AiError
    /\ clock' = clock + 1
    /\ uploads' = SetField(uploads, i,
          [uploads[i] EXCEPT
              !.call = "persist",
              !.reply = reply,
              !.calls = uploads[i].calls + 1,
              !.record = <<NewStoredFile(uploads[i].file, id, clock + 1,
                             ClassifyDocument(uploads[i].file.name, apiKey, reply))>>])
    /\ UNCHANGED <<cloud, apiKey, user, currentView, isAuthModalOpen, files,
                   searchTerm, sortConfig, uploadingFiles, deleteCalls,
                   loadCalls, authCalls, fileStore, userStore, alerts,
                   rowSeq, lastClick,
                   authForm>>

\* cloud adapter: the rows are built (new Date()) and Supabase answers the
\* insert, storing the row or refusing
UploadServe(i, serverOk) ==
    /\ cloud
    /\ i \in 1..Len(uploads)
    /\ uploads[i].call = "persist"
    /\ clock' = clock + 1
    /\ uploads' = SetField(uploads, i,
          [uploads[i] EXCEPT !.call = "reply", !.ok = serverOk])
    /\ IF serverOk
       THEN /\ fileStore' = Append(fileStore,
                   CloudRow(uploads[i].record[1], DbId(rowSeq + 1), clock + 1))
            /\ rowSeq' = rowSeq + 1
       ELSE UNCHANGED <<fileStore, rowSeq>>
    /\ UNCHANGED <<cloud, apiKey, user, currentView, isAuthModalOpen, files,
                   searchTerm, sortConfig, uploadingFiles, deleteCalls,
                   loadCalls, authCalls, userStore, alerts, lastClick,
                   authForm>>

\* a plausible slip: the record is appended whether or not the write worked
AfterUploadOptimistic(catalog, alertCount, record, ok) ==
    [files |-> Append(catalog, record),
     alerts |-> IF ok THEN alertCount ELSE alertCount + 1]

\* handleUpload, step 2, after the await: setFiles(prev => [...prev,
\* ...newFiles]), or the catch with its alert
AfterUpload(catalog, alertCount, record, ok) ==
    IF ok THEN [files |-> Append(catalog, record), alerts |-> alertCount]
    ELSE [files |-> catalog, alerts |-> alertCount + 1]

\* a plausible slip: the local branch saves the new rows alone, without the
\* rows it read
UploadSettleOverwrites(i, writeOk) ==
    /\ i \in 1..Len(uploads)
    /\ uploads[i].call = IF cloud THEN "reply" ELSE "persist"
    /\ cloud => writeOk
    /\ LET ok == IF cloud THEN uploads[i].ok ELSE writeOk
           r == AfterUpload(files, alerts, uploads[i].record[1], ok)
       IN  /\ uploads' = SetField(uploads, i,
                 [uploads[i] EXCEPT !.call = IF ok THEN "done" ELSE "failed",
                                    !.ok = ok])
           /\ fileStore' = IF ~cloud /\ ok
                           THEN <<LocalRow(uploads[i].record[1])>>
                           ELSE fileStore
           /\ files' = IF Alive THEN r.files ELSE files
           /\ alerts' = r.alerts
    /\ UNCHANGED <<cloud, apiKey, user, currentView, isAuthModalOpen,
                   searchTerm, sortConfig, uploadingFiles, deleteCalls,
                   loadCalls, authCalls, userStore, clock, rowSeq, lastClick,
                   authForm>>

\* uploadFiles settles and handleUpload continues.  Local adapter: the rows
\* are read, extended and saved in this step, and writeOk is whether
\* localStorage let that happen
UploadSettle(i, writeOk) ==
    /\ i \in 1..Len(uploads)
    /\ uploads[i].call = IF cloud THEN "reply" ELSE "persist"
    /\ cloud => writeOk
    /\ LET ok == IF cloud THEN uploads[i].ok ELSE writeOk
           r == AfterUpload(files, alerts, uploads[i].record[1], ok)
       IN  /\ uploads' = SetField(uploads, i,
                 [uploads[i] EXCEPT !.call = IF ok THEN "done" ELSE "failed",
                                    !.ok = ok])
           /\ fileStore' = IF ~cloud /\ ok
                           THEN Append(fileStore, LocalRow(uploads[i].record[1]))
                           ELSE fileStore
           /\ files' = IF Alive THEN r.files ELSE files
           /\ alerts' = r.alerts
    /\ UNCHANGED <<cloud, apiKey, user, currentView, isAuthModalOpen,
                   searchTerm, sortConfig, uploadingFiles, deleteCalls,
                   loadCalls, authCalls, userStore, clock, rowSeq, lastClick,
                   authForm>>

(***************************************************************************)
(* App.handleDelete                                                        *)
(***************************************************************************)
DeleteCall(id) == [id |-> id, phase |-> "wait", ok |-> FALSE]

\* the delete button of a visible row: handleDelete(file.id) starts and
\* waits in FileService.deleteFile
HandleDelete(id) ==
    /\ Alive
    /\ currentView = "DASHBOARD"
    /\ Len(deleteCalls) < MaxDeletes
    /\ \E j \in 1..Len(filteredAndSortedFiles) : filteredAndSortedFiles[j].id = id
    /\ deleteCalls' = Append(deleteCalls, DeleteCall(id))
    /\ UNCHANGED <<cloud, apiKey, user, currentView, isAuthModalOpen, files,
                   searchTerm, sortConfig, uploadingFiles, uploads,
                   loadCalls, authCalls, fileStore, userStore, alerts,
                   clock, rowSeq, lastClick,
                   authForm>>

\* cloud adapter: Supabase answers delete().match({ id }), removing the rows
\* with that id or refusing
DeleteServe(i, serverOk) ==
    /\ cloud
    /\ i \in 1..Len(deleteCalls)
    /\ deleteCalls[i].phase = "wait"
    /\ deleteCalls' = SetField(deleteCalls, i,
          [deleteCalls[i] EXCEPT !.phase = "reply", !.ok = serverOk])
    /\ fileStore' = IF serverOk THEN WithoutId(fileStore, deleteCalls[i].id)
                    ELSE fileStore
    /\ UNCHANGED <<cloud, apiKey, user, currentView, isAuthModalOpen, files,
                   searchTerm, sortConfig, uploadingFiles, uploads,
                   loadCalls, authCalls, userStore, alerts, clock, rowSeq,
                   lastClick,
                   authForm>>

\* whether deleteFile rejects: the cloud branch awaits the query and never
\* looks at the error it resolves to; the local branch throws when
\* localStorage does
DeleteFileThrows(isCloud, deleteOk) == ~isCloud /\ ~deleteOk

\* a plausible slip: the catalog is not updated after the delete
AfterDeleteNoRefresh(catalog, alertCount, id, threw) ==
    [files |-> catalog,
     alerts |-> IF threw THEN alertCount + 1 ELSE alertCount]

\* a plausible slip: only the first record with the id is taken out
AfterDeleteFirstOnly(catalog, alertCount, id, threw) ==
    LET hits == {k \in 1..Len(catalog) : catalog[k].id = id}
        first == CHOOSE k \in hits : \A q \in hits : k <= q
    IN  IF threw THEN [files |-> catalog, alerts |-> alertCount + 1]
        ELSE IF hits = {} THEN [files |-> catalog, alerts |-> alertCount]
        ELSE [files |-> SubSeq(catalog, 1, first - 1)
                        \o SubSeq(catalog, first + 1, Len(catalog)),
              alerts |-> alertCount]

\* handleDelete after the await: setFiles(prev => prev.filter(f => f.id !==
\* id)), or the catch with its alert
AfterDelete(catalog, alertCount, id, threw) ==
    IF threw THEN [files |-> catalog, alerts |-> alertCount + 1]
    ELSE [files |-> WithoutId(catalog, id), alerts |-> alertCount]

\* deleteFile settles and handleDelete continues.  Local adapter: the rows
\* are read, filtered and saved in this step (deleteOk: localStorage let
\* that happen)
DeleteSettle(i, deleteOk) ==
    /\ i \in 1..Len(deleteCalls)
    /\ deleteCalls[i].phase = IF cloud THEN "reply" ELSE "wait"
    /\ cloud => deleteOk
    /\ LET ok == IF cloud THEN deleteCalls[i].ok ELSE deleteOk
           r == AfterDelete(files, alerts, deleteCalls[i].id,
                            DeleteFileThrows(cloud, ok))
       IN  /\ deleteCalls' = SetField(deleteCalls, i,
                 [deleteCalls[i] EXCEPT !.phase = "done", !.ok = ok])
           /\ fileStore' = IF ~cloud /\ ok
                           THEN WithoutId(fileStore, deleteCalls[i].id)
                           ELSE fileStore
           /\ files' = IF Alive THEN r.files ELSE files
           /\ alerts' = r.alerts
    /\ UNCHANGED <<cloud, apiKey, user, currentView, isAuthModalOpen,
                   searchTerm, sortConfig, uploadingFiles, uploads,
                   loadCalls, authCalls, userStore, clock, rowSeq, lastClick,
                   authForm>>

(***************************************************************************)
(* Specifications                                                          *)
(***************************************************************************)
\* what the form of the modal is filled with
AdminCredentials == [username |-> "admin", password |-> "password123", email |-> ""]
WrongCredentials == [username |-> "admin", password |-> "letmein", email |-> ""]
BobCredentials == [username |-> "bob", password |-> "secret1", email |-> ""]
BobUser == [username |-> "bob", password |-> "secret1", email |-> "bob@medivault.app"]
AdminAgain == [username |-> "admin", password |-> "hacked1", email |-> "eve@medivault.app"]
LoginInputs == {AdminCredentials, WrongCredentials, BobCredentials}
RegisterInputs == {BobUser, AdminAgain}

\* a record an earlier session of the page uploaded
PriorFile == StoredFile(1, GrowthChartPng, "image/png", 512, 0, Pediatrics, "file")

\* what the store can hold when the page is opened
PriorStores(isCloud) ==
    IF isCloud THEN {<< >>, <<CloudRow(PriorFile, DbId(1), 0)>>}
    ELSE {<< >>, <<LocalRow(PriorFile)>>}

\* the page as opened, built without an API key: the useState initial
\* values of App, the users the module initialisation of backend.ts leaves
\* in localStorage
Init ==
    /\ cloud \in BOOLEAN
    /\ apiKey = FALSE
    /\ user = NoUser
    /\ currentView = "LANDING"
    /\ isAuthModalOpen = FALSE
    /\ files = << >>
    /\ searchTerm = << >>
    /\ sortConfig = InitialSortConfig
    /\ uploadingFiles = << >>
    /\ uploads = << >>
    /\ deleteCalls = << >>
    /\ loadCalls = << >>
    /\ authCalls = << >>
    /\ fileStore \in PriorStores(cloud)
    /\ userStore = IF cloud THEN << >> ELSE <<DEFAULT_ADMIN>>
    /\ alerts = 0
    /\ clock = 0
    /\ rowSeq = IF cloud THEN Len(fileStore) ELSE 0
    /\ lastClick = "none"
    /\ authForm = InitialForm

\* the admin has logged in and the catalog is loaded
InitDashboard ==
    /\ cloud \in BOOLEAN
    /\ apiKey \in BOOLEAN
    /\ Dashboard
    /\ fileStore \in (IF cloud THEN {<< >>} ELSE PriorStores(FALSE))
    /\ files = IF cloud THEN GetAllFilesCloud(fileStore)
               ELSE GetAllFilesLocal(fileStore)
    /\ userStore = IF cloud THEN << >> ELSE <<DEFAULT_ADMIN>>

NextAuth ==
    \/ OpenAuthModal
    \/ CloseAuthModal
    \/ HandleGetStarted
    \/ \E credentials \in LoginInputs : HandleLogin(credentials)
    \/ \E newUser \in RegisterInputs : HandleRegister(newUser)
    \/ \E i \in 1..MaxAuthCalls, serverOk \in BOOLEAN : AuthSettle(i, serverOk)
    \/ HandleLogout
    \/ \E i \in 1..MaxAuthCalls, serverOk \in BOOLEAN : LoadServe(i, serverOk)
    \/ \E i \in 1..MaxAuthCalls, readOk \in BOOLEAN : LoadSettle(i, readOk)
    \/ \E term \in SearchTerms : SetSearchTerm(term)

\* login, register, logout, the loading of the catalog and the search box
SpecAuth == Init /\ [][NextAuth]_vars

\* files are dropped or chosen while fewer than MaxSubmits were submitted
SubmitBatch(newFiles, ids, speeds) ==
    /\ Len(uploads) + Len(newFiles) <= MaxSubmits
    /\ SimulateUploads(newFiles, ids, speeds)

NextUploads ==
    \/ \E n \in 1..MaxSubmits :
         \E newFiles \in [1..n -> {HeartScanFile}], ids \in [1..n -> RandomIds],
            speeds \in [1..n -> FastSpeeds] :
              SubmitBatch(newFiles, ids, speeds)
    \/ \E i \in 1..MaxSubmits : Tick(i)
    \/ \E i \in 1..MaxSubmits : RemoveTicket(i)
    \/ \E i \in 1..MaxSubmits, reply \in AiReplies, id \in RandomIds :
         Classified(i, reply, id)
    \/ \E i \in 1..MaxSubmits, serverOk \in BOOLEAN : UploadServe(i, serverOk)
    \/ \E i \in 1..MaxSubmits, writeOk \in BOOLEAN : UploadSettle(i, writeOk)
    \/ HandleLogout

InitUploads == InitDashboard /\ ~apiKey

\* uploads from the dashboard of a page built without an API key: batches
\* of the same file, at the fastest speed
SpecUploads == InitUploads /\ [][NextUploads]_vars

\* what the model call does in the life of one ticket: a usable reply, or
\* an error
TicketReplies ==
    {AiText(<<" ", "n", "e", "u", "r", "o", "l", "o", "g", "y", " ">>), AiError}

\* one file is submitted, once, at any speed
SubmitOne(file, id, speed) ==
    /\ uploads = << >>
    /\ SimulateUploads(<<file>>, <<id>>, <<speed>>)

NextTicket ==
    \/ \E file \in PickFiles, id \in RandomIds, speed \in Speeds :
         SubmitOne(file, id, speed)
    \/ Tick(1)
    \/ RemoveTicket(1)
    \/ \E reply \in TicketReplies, id \in RandomIds : Classified(1, reply, id)
    \/ \E serverOk \in BOOLEAN : UploadServe(1, serverOk)
    \/ \E writeOk \in BOOLEAN : UploadSettle(1, writeOk)
    \/ HandleLogout

\* setInterval runs the callback again and again until clearInterval, and
\* classifyDocument answers: it returns, or its model call throws or replies
FairTicket ==
    /\ WF_vars(Tick(1))
    /\ WF_vars(\E reply \in TicketReplies, id \in RandomIds : Classified(1, reply, id))

\* the life of one upload ticket
SpecTicket == InitDashboard /\ [][NextTicket]_vars /\ FairTicket

Next ==
    \/ OpenAuthModal
    \/ CloseAuthModal
    \/ HandleGetStarted
    \/ HandleLogin(AdminCredentials)
    \/ HandleRegister(BobUser)
    \/ \E i \in 1..MaxAuthCalls, serverOk \in BOOLEAN : AuthSettle(i, serverOk)
    \/ HandleLogout
    \/ \E i \in 1..MaxAuthCalls, serverOk \in BOOLEAN : LoadServe(i, serverOk)
    \/ \E i \in 1..MaxAuthCalls, readOk \in BOOLEAN : LoadSettle(i, readOk)
    \/ \E id \in RandomIds, speed \in FastSpeeds :
         SubmitBatch(<<HeartScanFile>>, <<id>>, <<speed>>)
    \/ \E i \in 1..MaxSubmits : Tick(i)
    \/ \E i \in 1..MaxSubmits : RemoveTicket(i)
    \/ \E i \in 1..MaxSubmits, reply \in AiReplies, id \in RandomIds :
         Classified(i, reply, id)
    \/ \E i \in 1..MaxSubmits, serverOk \in BOOLEAN : UploadServe(i, serverOk)
    \/ \E i \in 1..MaxSubmits, writeOk \in BOOLEAN : UploadSettle(i, writeOk)
    \/ \E id \in RandomIds \cup {DbId(n) : n \in 1..MaxSubmits + 1} : HandleDelete(id)
    \/ \E i \in 1..MaxDeletes, serverOk \in BOOLEAN : DeleteServe(i, serverOk)
    \/ \E i \in 1..MaxDeletes, deleteOk \in BOOLEAN : DeleteSettle(i, deleteOk)

\* the whole page
Spec == Init /\ [][Next]_vars

(***************************************************************************)
(* Claims about upload tickets, uploads, deletes and registration          *)
(***************************************************************************)
\* what every step does to the one ticket and to its upload call
TicketSteps ==
    [][/\ (uploads = << >> /\ uploads' # << >>) =>
            /\ Len(uploadingFiles') = 1
            /\ uploadingFiles'[1].progress = 0
            /\ uploadingFiles'[1].status = "uploading"
            /\ uploadingFiles'[1].file = uploads'[1].file
       /\ (uploadingFiles # << >> /\ uploadingFiles' # << >>) =>
            /\ Len(uploadingFiles') = 1
            /\ uploadingFiles'[1].progress >= uploadingFiles[1].progress
            /\ uploadingFiles'[1].progress \in 0..100
            /\ uploadingFiles'[1].status = "success" <=>
                  uploadingFiles'[1].progress = 100
            /\ uploadingFiles[1].status = "success" =>
                  uploadingFiles'[1].status = "success"
       /\ uploads' # << >> =>
            /\ Len(uploads') = 1
            /\ uploads'[1].currentProgress \in 0..100
            /\ uploads # << >> =>
                  uploads'[1].currentProgress >= uploads[1].currentProgress
            /\ uploads'[1].calls <= 1
            /\ uploads'[1].call \in {"none", "classify"} <=> uploads'[1].calls = 0
            /\ uploads'[1].calls = 1 =>
                  /\ uploads'[1].record[1].name = uploads'[1].file.name
                  /\ uploads'[1].record[1].size = uploads'[1].file.size
                  /\ uploads'[1].record[1].content = "file"]_vars

\* C4: submitting one file creates one ticket at progress 0 with status
\* uploading; from tick to tick the progress (the ticket's, and the timer's
\* own count behind it) never decreases and stays within 0..100; the status
\* is success exactly from the step in which the progress becomes 100;
\* never more than one persistence upload call is made, once the
\* classification has answered exactly one has been made, with a record of
\* exactly that file, and a submitted file does get to that call.
C4_OneTicketOneUpload ==
    /\ (uploads # << >>) ~> (uploads # << >> /\ uploads[1].calls = 1)
    /\ TicketSteps

\* the ticket shows success at 100 and its one upload call has settled
C4_Witness ==
    /\ uploadingFiles # << >>
    /\ uploadingFiles[1].progress = 100
    /\ uploadingFiles[1].status = "success"
    /\ uploads[1].call = "done"
    /\ uploads[1].calls = 1

\* C5 as stated: when the delete of the persistence layer fails, the
\* catalog after handleDelete is the catalog before it and an alert is
\* raised, with either adapter.
C5_FailedDeleteKeepsCatalog ==
    [][\A i \in 1..Len(deleteCalls) :
          (/\ deleteCalls[i].phase # "done"
           /\ deleteCalls'[i].phase = "done"
           /\ ~deleteCalls'[i].ok) =>
              /\ files' = files
              /\ alerts' = alerts + 1]_vars

\* the records of a catalog
Records(catalog) == {catalog[k] : k \in 1..Len(catalog)}

\* C6: when the persistence upload fails for a submitted file, that step
\* leaves the catalog as it was and raises one alert; the record never is in
\* the catalog; and the call is not made again: the failed call stays
\* failed and remains the only upload call of its ticket.
C6_FailedUploadNotAdded ==
    [][\A i \in 1..Len(uploads) :
          /\ (uploads[i].call # "failed" /\ uploads'[i].call = "failed") =>
                /\ files' = files
                /\ alerts' = alerts + 1
          /\ uploads'[i].call = "failed" =>
                /\ uploads'[i].record[1] \notin Records(files')
                /\ uploads'[i].calls = 1
          /\ uploads[i].call = "failed" =>
                /\ uploads'[i].call = "failed"
                /\ uploads'[i].calls = 1]_vars

\* an upload failed next to a catalog that holds a record
C6_Witness ==
    /\ \E i \in 1..Len(uploads) : uploads[i].call = "failed"
    /\ alerts >= 1
    /\ files # << >>

\* getAllFiles over what the store holds, as the adapter in use reads it
List(rows) == IF cloud THEN GetAllFilesCloud(rows) ELSE GetAllFilesLocal(rows)

\* C7 as stated: the row an upload writes, read back through list(), has
\* the name, type, size and category of the record that was written, with
\* either adapter.
C7_RoundTrip ==
    [][\A i \in 1..Len(uploads) :
          (/\ Len(fileStore') = Len(fileStore) + 1
           /\ uploads[i].call = "persist"
           /\ uploads'[i].call # "persist") =>
              LET back == List(fileStore')[Len(fileStore')]
                  written == uploads[i].record[1]
              IN  /\ back.name = written.name
                  /\ back.type = written.type
                  /\ back.size = written.size
                  /\ back.medicalCourse = written.medicalCourse]_vars

\* C8 as stated: no two records of the catalog have the same identifier.
C8_CatalogIdsUnique ==
    \A i, j \in 1..Len(files) : i # j => files[i].id # files[j].id

\* C9: with the local adapter, a register call whose user name is in the
\* user store fails with "Username is already taken" and leaves the store
\* (and the logged-in user) as they were; the user names of the store stay
\* pairwise distinct, also when register calls overlap.
C9_RegisterTakenName ==
    /\ [](~cloud =>
            \A k, l \in 1..Len(userStore) :
                k # l => userStore[k].username # userStore[l].username)
    /\ [][\A i \in 1..Len(authCalls) :
            (/\ ~cloud
             /\ authCalls[i].kind = "register"
             /\ authCalls[i].phase = "wait"
             /\ authCalls'[i].phase = "done"
             /\ \E k \in 1..Len(userStore) :
                   userStore[k].username = authCalls[i].user.username) =>
                /\ ~authCalls'[i].ok
                /\ authCalls'[i].error = "Username is already taken"
                /\ userStore' = userStore
                /\ user' = user]_vars

\* two register calls for the same new name overlapped: the first stored
\* it, the second was refused
C9_Witness ==
    /\ ~cloud
    /\ Len(authCalls) = 2
    /\ authCalls[1].kind = "register" /\ authCalls[1].ok
    /\ authCalls[2].kind = "register" /\ authCalls[2].phase = "done"
    /\ authCalls[2].error = UsernameTaken
    /\ Len(userStore) = 2

\* a step that ends or restarts the session's catalog rather than editing
\* it: logout, or loadData putting the fetched catalog in place
CatalogReset ==
    \/ (user # NoUser /\ user' = NoUser)
    \/ \E i \in 1..Len(loadCalls) :
          loadCalls[i].phase # "done" /\ loadCalls'[i].phase = "done"

\* C10 as stated: the upload call for a file and its record's appearance in
\* the catalog come only after its ticket reached 100; a record enters the
\* catalog only in the step in which its upload is acknowledged; a record
\* leaves the catalog only in the step of a delete the persistence layer
\* acknowledged.
C10_Lifecycle ==
    [][/\ \A i \in 1..Len(uploads') :
            uploads'[i].call # "none" => uploads'[i].currentProgress = 100
       /\ ~CatalogReset =>
            /\ \A rec \in Records(files') \ Records(files) :
                  \E i \in 1..Len(uploads) :
                      /\ uploads[i].call # "done"
                      /\ uploads'[i].call = "done"
                      /\ uploads'[i].record = <<rec>>
            /\ \A rec \in Records(files) \ Records(files') :
                  \E d \in 1..Len(deleteCalls) :
                      /\ deleteCalls[d].phase # "done"
                      /\ deleteCalls'[d].phase = "done"
                      /\ deleteCalls'[d].ok
                      /\ deleteCalls'[d].id = rec.id]_vars

(***************************************************************************)
(* Classification on its own: one file of each kind, every kind of reply   *)
(***************************************************************************)
EcgFile == [name |-> EcgPdfUpper, type |-> "application/pdf", size |-> 1]
GrowthFile == [name |-> GrowthChartPng, type |-> "image/png", size |-> 512]
ClassifyFiles == {HeartScanFile, NotesFile, EcgFile, GrowthFile}

\* what the model call may do: the replies of AiReplies, a course in capitals,
\* a course as it is written in MEDICAL_COURSES, an empty text, only spaces
ClassifyReplies ==
    AiReplies \cup
    {AiText(<<"R", "A", "D", "I", "O", "L", "O", "G", "Y">>),
     AiText(GeneralMedicine), AiText(<< >>), AiText(<<" ", " ">>)}

NextClassify ==
    \/ \E file \in ClassifyFiles, id \in RandomIds, speed \in FastSpeeds :
         SubmitOne(file, id, speed)
    \/ Tick(1)
    \/ RemoveTicket(1)
    \/ \E reply \in ClassifyReplies, id \in RandomIds : Classified(1, reply, id)
    \/ \E serverOk \in BOOLEAN : UploadServe(1, serverOk)
    \/ \E writeOk \in BOOLEAN : UploadSettle(1, writeOk)

\* one upload of a file of any kind, classified after any reply
SpecClassify == InitDashboard /\ [][NextClassify]_vars

\* the labels of the enumeration
CourseSet == {MEDICAL_COURSES[c] : c \in 1..Len(MEDICAL_COURSES)}

\* two texts agree up to letter case
EqualIgnoringCase(s, t) ==
    /\ Len(s) = Len(t)
    /\ \A k \in 1..Len(s) : LowerChar(s[k]) = LowerChar(t[k])

\* the model call answered with a text that, white space at its ends apart,
\* is one of the seven labels in some letter case
Recognized(reply) ==
    /\ reply.kind = "text"
    /\ \E c \in CourseSet : EqualIgnoringCase(Trim(reply.text), c)

\* C11: the category of every record handleUpload builds is one of the
\* seven labels; without API key, after a thrown error, and after a reply
\* that is no label it is what the local keyword heuristic gives for the
\* file name; after a label in any letter case it is that label; and the
\* classification always answers, so the upload goes on to the persistence
\* call.
C11_ClassifyTotal ==
    \A i \in 1..Len(uploads) :
        /\ uploads[i].call \notin {"none", "classify"} => uploads[i].record # << >>
        /\ uploads[i].record # << >> =>
              LET course == uploads[i].record[1].medicalCourse
                  reply == uploads[i].reply
              IN  /\ course \in CourseSet
                  /\ (~apiKey \/ ~Recognized(reply)) =>
                        course = ClassifyFileLocal(uploads[i].file.name)
                  /\ (apiKey /\ Recognized(reply)) =>
                        EqualIgnoringCase(course, Trim(reply.text))

\* the model call threw for heart_scan.pdf and the heuristic classified it
C11_Witness ==
    /\ apiKey
    /\ uploads # << >>
    /\ uploads[1].reply = AiError
    /\ uploads[1].file = HeartScanFile
    /\ uploads[1].record # << >>
    /\ uploads[1].record[1].medicalCourse = Cardiology

\* the model call answered with a text that is none of the seven labels
Unmatched(i) ==
    /\ apiKey
    /\ uploads[i].record # << >>
    /\ uploads[i].reply.kind = "text"
    /\ ~Recognized(uploads[i].reply)

\* C20 as stated: after a reply that matches none of the seven categories
\* the category of the document is General Medicine.
C20_UnmatchedIsGeneral ==
    \A i \in 1..Len(uploads) :
        Unmatched(i) => uploads[i].record[1].medicalCourse = GeneralMedicine

\* the rules one of whose words occurs in the name, letter case apart
RulesHit(name) ==
    {r \in 1..Len(LocalRules) :
        \E w \in LocalRules[r].words : ContainsIgnoringCase(name, w)}

\* C20, amended: after a reply that matches none of the seven categories
\* the category is the course of the first keyword rule that the file name
\* meets, and General Medicine only when the name meets no rule.
C20_UnmatchedFallsBack ==
    \A i \in 1..Len(uploads) :
        Unmatched(i) =>
            LET hit == RulesHit(uploads[i].file.name)
                course == uploads[i].record[1].medicalCourse
            IN  /\ hit = {} <=> course = GeneralMedicine
                /\ hit # {} =>
                      \E r \in hit : /\ \A q \in hit : r <= q
                                     /\ course = LocalRules[r].course

\* ECG.PDF after the reply "none": Cardiology, by the keyword ecg
C20_Witness ==
    /\ uploads # << >>
    /\ Unmatched(1)
    /\ uploads[1].file = EcgFile
    /\ uploads[1].record[1].medicalCourse = Cardiology

(***************************************************************************)
(* The modal's form from opening it to the answer of AuthService           *)
(***************************************************************************)
FormUsernames == {"", "admin"}
FormPasswords == {"", "abc", "password123"}
FormEmails == {"", "bob@medivault.app"}

FormValues(field) ==
    IF field = "username" THEN FormUsernames
    ELSE IF field = "email" THEN FormEmails
    ELSE FormPasswords

NextForm ==
    \/ OpenAuthModal
    \/ CloseAuthModal
    \/ HandleGetStarted
    \/ \E field \in FormFields : \E value \in FormValues(field) :
         SetFormField(field, value)
    \/ SwitchMode
    \/ HandleSubmit
    \/ SubmitCall
    \/ \E i \in 1..MaxAuthCalls, serverOk \in BOOLEAN : AuthSettle(i, serverOk)
    \/ HandleLogout

InitForm == Init /\ fileStore = << >>

SpecForm == InitForm /\ [][NextForm]_vars

\* C12 as stated: a login or a registration that AuthService rejects leaves
\* the form with its error message set to the text of the error, the user
\* as before and the modal open as before.
C12_RejectionShown ==
    [][\A i \in 1..Len(authCalls) :
          (/\ authCalls[i].phase = "wait"
           /\ authCalls'[i].phase = "done"
           /\ ~authCalls'[i].ok)
          => /\ authForm'.error = authCalls'[i].error
             /\ user' = user
             /\ isAuthModalOpen' = isAuthModalOpen]_vars

\* the message of the first check that fails, in the order required fields,
\* email, password match, password length; "" when none fails
FailedChecks(f) ==
    <<f.username = "" \/ f.password = "",
      ~f.isLogin /\ f.email = "",
      ~f.isLogin /\ f.password # f.confirmPassword,
      ~f.isLogin /\ Len(f.password) < MinPasswordLength>>

CheckMessages ==
    <<RequiredFieldsMessage, EmailRequiredMessage, PasswordMismatchMessage,
      PasswordLengthMessage>>

FirstFailure(f) ==
    LET failed == {k \in 1..4 : FailedChecks(f)[k]}
    IN  IF failed = {} THEN ""
        ELSE CheckMessages[CHOOSE k \in failed : \A q \in failed : k <= q]

\* C13: a submission of a form that fails a validation ends with the
\* message of the first failing check (required fields, email, password
\* match, password length) as the form's error, and starts no call of
\* AuthService for it: nothing is pending and authCalls is as before; a
\* submission is pending, and a call is made, only for values that pass
\* every check.
C13_ValidationBlocksCall ==
    [][/\ (HandleSubmit /\ FirstFailure(authForm) # "")
          => /\ authForm'.error = FirstFailure(authForm)
             /\ authForm'.pending = << >>
             /\ ~authForm'.loading
             /\ authCalls' = authCalls
       /\ (authForm'.error # authForm.error /\ authForm'.error # "")
          => /\ authForm'.error = FirstFailure(authForm)
             /\ authCalls' = authCalls
       /\ (authForm'.pending # << >> /\ authForm.pending = << >>)
          => FirstFailure(authForm) = ""
       /\ Len(authCalls') > Len(authCalls)
          => LET c == authCalls'[Len(authCalls')]
             IN  FirstFailure([isLogin |-> c.kind = "login",
                               username |-> c.user.username,
                               password |-> c.user.password,
                               confirmPassword |-> c.user.password,
                               email |-> c.user.email]) = ""]_vars

\* a registration with a matching password of three characters was
\* submitted: the last check failed, and no call was made
C13_Witness ==
    /\ ~authForm.isLogin
    /\ authForm.password = "abc"
    /\ authForm.confirmPassword = "abc"
    /\ authForm.error = PasswordLengthMessage
    /\ authForm.pending = << >>
    /\ authCalls = << >>

\* C14 as stated: when getAllFiles fails on the load that follows a login,
\* with either adapter, no alert is raised and the catalog after the load
\* is the empty sequence.
C14_FailedLoadEmptyCatalog ==
    [][\A i \in 1..Len(loadCalls) :
          (/\ loadCalls[i].phase # "done"
           /\ loadCalls'[i].phase = "done"
           /\ ~loadCalls'[i].ok)
          => /\ alerts' = alerts
             /\ files' = << >>]_vars

\* C15: filtering is idempotent: for the term in the search box and for
\* every other term, filtering the filtered catalog again gives the same
\* sequence.
C15_FilterIdempotent ==
    \A term \in SearchTerms \cup {searchTerm} :
        FilterFiles(FilterFiles(files, term), term) = FilterFiles(files, term)

\* the term "scan" keeps one of two records
C15_Witness ==
    /\ searchTerm = <<"s", "c", "a", "n">>
    /\ Len(files) = 2
    /\ Len(FilterFiles(files, searchTerm)) = 1

\* where a record of the catalog stands in it (identifiers are distinct in
\* the catalogs of the view)
IndexIn(catalog, f) == CHOOSE i \in 1..Len(catalog) : catalog[i] = f

\* rows that tie on the key stand in rows as they stand in catalog
TiesKeepOrder(rows, catalog, key) ==
    \A j, k \in 1..Len(rows) :
        (/\ j < k
         /\ ~ValueLess(rows[j], rows[k], key)
         /\ ~ValueLess(rows[k], rows[j], key))
        => IndexIn(catalog, rows[j]) < IndexIn(catalog, rows[k])

Directions == {"asc", "desc"}

\* C17: the sort of the visible rows is stable in both directions: records
\* equal on the sort key keep the relative order they have in the catalog,
\* for the configuration in force and for every other key and direction;
\* and no step of the view (a click on a column header, a change of the
\* search term) reorders or changes the catalog.
C17_StableSort ==
    /\ [](/\ TiesKeepOrder(filteredAndSortedFiles, files, sortConfig.key)
          /\ \A key \in SortKeys, direction \in Directions :
                TiesKeepOrder(
                    VisibleRows(files, searchTerm,
                                [key |-> key, direction |-> direction]),
                    files, key))
    /\ [][files' = files]_vars

\* two records of the same name, sorted by name descending after two clicks
C17_Witness ==
    /\ sortConfig = [key |-> "name", direction |-> "desc"]
    /\ Len(files) = 2
    /\ files[1].name = files[2].name
    /\ filteredAndSortedFiles = files

(***************************************************************************)
(* Deleting on its own: the loaded catalog, one upload, the delete buttons *)
(***************************************************************************)
NextDelete ==
    \/ \E id \in RandomIds, speed \in FastSpeeds :
         SubmitOne(HeartScanFile, id, speed)
    \/ Tick(1)
    \/ RemoveTicket(1)
    \/ \E id \in RandomIds : Classified(1, AiError, id)
    \/ \E serverOk \in BOOLEAN : UploadServe(1, serverOk)
    \/ \E writeOk \in BOOLEAN : UploadSettle(1, writeOk)
    \/ \E id \in RandomIds : HandleDelete(id)
    \/ \E i \in 1..MaxDeletes, serverOk \in BOOLEAN : DeleteServe(i, serverOk)
    \/ \E i \in 1..MaxDeletes, deleteOk \in BOOLEAN : DeleteSettle(i, deleteOk)

SpecDelete == InitUploads /\ [][NextDelete]_vars

\* after is before with exactly the entries of identifier id taken out: the
\* others are all there, in the order they had
LosesExactly(before, after, id) ==
    LET kept == {k \in 1..Len(before) : before[k].id # id}
    IN  /\ Len(after) = Cardinality(kept)
        /\ \A n \in 1..Len(after) :
              /\ after[n].id # id
              /\ \E k \in kept : /\ Cardinality({j \in kept : j < k}) = n - 1
                                 /\ after[n] = before[k]

\* C16: when the persistence layer acknowledges remove(id), handleDelete
\* raises no alert and leaves the catalog without any record of that id,
\* every other record still there in the same relative order; the store
\* loses exactly its entries of that id (the local store in the same step,
\* the table when Supabase serves the delete), so that deleting an id that
\* is not stored succeeds and leaves the store as it was.
C16_DeleteRemovesExactly ==
    [][\A i \in 1..Len(deleteCalls) :
          LET id == deleteCalls[i].id
          IN  /\ (/\ deleteCalls[i].phase # "done"
                  /\ deleteCalls'[i].phase = "done"
                  /\ deleteCalls'[i].ok)
                 => /\ alerts' = alerts
                    /\ LosesExactly(files, files', id)
                    /\ ~cloud => LosesExactly(fileStore, fileStore', id)
                    /\ cloud => fileStore' = fileStore
              /\ (/\ deleteCalls[i].phase = "wait"
                  /\ deleteCalls'[i].phase # "wait"
                  /\ deleteCalls'[i].ok)
                 => /\ LosesExactly(fileStore, fileStore', id)
                    /\ (\A k \in 1..Len(fileStore) : fileStore[k].id # id)
                       => fileStore' = fileStore]_vars

\* local adapter: of two records the one deleted is gone from the catalog
\* and from the store, the other is in both
C16_Witness ==
    /\ ~cloud
    /\ deleteCalls # << >>
    /\ deleteCalls[1].phase = "done"
    /\ deleteCalls[1].ok
    /\ Len(files) = 1
    /\ Len(fileStore) = 1
    /\ files[1].id # deleteCalls[1].id
    /\ fileStore[1].id = files[1].id
    /\ uploads # << >>
    /\ uploads[1].ok

(***************************************************************************)
(* The upload tickets on their own: files submitted one after another while *)
(* the timers of the earlier ones run                                      *)
(***************************************************************************)
\* the slowest and the fastest speed
TicketSpeeds == {SpeedMin, SpeedMin + SpeedSpan - 1}

SubmitTicket(file, id, speed) ==
    /\ Len(uploads) < MaxTickets
    /\ SimulateUploads(<<file>>, <<id>>, <<speed>>)

NextTickets ==
    \/ \E id \in RandomIds, speed \in TicketSpeeds :
         SubmitTicket(HeartScanFile, id, speed)
    \/ \E i \in 1..MaxTickets : Tick(i)
    \/ \E i \in 1..MaxTickets : RemoveTicket(i)
    \/ \E i \in 1..MaxTickets, id \in RandomIds : Classified(i, AiError, id)
    \/ \E i \in 1..MaxTickets, serverOk \in BOOLEAN : UploadServe(i, serverOk)
    \/ \E i \in 1..MaxTickets, writeOk \in BOOLEAN : UploadSettle(i, writeOk)

\* setInterval and setTimeout callbacks run whenever they are due
FairTickets ==
    \A i \in 1..MaxTickets : WF_vars(Tick(i)) /\ WF_vars(RemoveTicket(i))

SpecTickets == InitUploads /\ [][NextTickets]_vars /\ FairTickets

\* C18 as stated: the status of a ticket only moves forward: a ticket that
\* has reached success (or error) is never uploading again and its progress
\* never changes again, whatever the timers of the other tickets do.  (A
\* step that does not shorten the visible set keeps every ticket at its
\* position.)
C18_FinishedTicketFrozen ==
    [][Len(uploadingFiles') >= Len(uploadingFiles)
       => \A k \in 1..Len(uploadingFiles) :
             uploadingFiles[k].status # "uploading"
             => /\ uploadingFiles'[k].status = uploadingFiles[k].status
                /\ uploadingFiles'[k].progress = uploadingFiles[k].progress]_vars

\* the tickets of the visible set that are uploading
Uploading(tickets) ==
    {k \in 1..Len(tickets) : tickets[k].status = "uploading"}

\* C19 as stated: every submitted ticket eventually reaches success; its
\* timer stops once it does (no ticket of a running timer shows success);
\* the ticket is eventually removed, so that the visible set is empty in
\* the end once submissions stop; and no ticket is removed while its status
\* is uploading.
C19_TicketsComplete ==
    /\ \A i \in 1..MaxTickets :
          (Len(uploads) >= i) ~> (/\ Len(uploads) >= i
                                  /\ ~uploads[i].timer
                                  /\ uploads[i].currentProgress = FullProgress)
    /\ [](\A i \in 1..Len(uploads) :
            uploads[i].timer
            => \A k \in 1..Len(uploadingFiles) :
                  uploadingFiles[k].id = uploads[i].id
                  => uploadingFiles[k].status = "uploading")
    /\ \A i \in 1..MaxTickets :
          (Len(uploads) >= i) ~> (/\ Len(uploads) >= i
                                  /\ uploads[i].removal = "done")
    /\ (Len(uploads) = MaxTickets) ~> (uploadingFiles = << >>)
    /\ [][Len(uploadingFiles') < Len(uploadingFiles)
          => Cardinality(Uploading(uploadingFiles'))
               = Cardinality(Uploading(uploadingFiles))]_vars

\* the positions at which two visible sets of the same length differ
Changed(before, after) ==
    {k \in 1..Len(before) : after[k] # before[k]}

\* after is before with one ticket taken out
OneTaken(before, after) ==
    \E k \in 1..Len(before) :
        after = SubSeq(before, 1, k - 1) \o SubSeq(before, k + 1, Len(before))

\* C21 as stated: tickets advance independently: a run of the interval
\* callback of one ticket changes at most one ticket of the visible set and
\* leaves the others as they are, and the removal timeout of a finished
\* ticket takes at most that one ticket out, for every interleaving of the
\* callbacks of the tickets in flight.
C21_TicketsIndependent ==
    [][\A i \in 1..Len(uploads) :
          /\ uploads'[i].currentProgress # uploads[i].currentProgress
             => /\ Len(uploadingFiles') = Len(uploadingFiles)
                /\ Cardinality(Changed(uploadingFiles, uploadingFiles')) <= 1
          /\ (uploads[i].removal = "pending" /\ uploads'[i].removal = "done")
             => \/ uploadingFiles' = uploadingFiles
                \/ OneTaken(uploadingFiles, uploadingFiles')]_vars

\* C22 as stated: logout leaves no user, the landing view, an empty search
\* term and an empty catalog, and while no user is logged in the catalog
\* stays empty, also when uploads and persistence calls that were started
\* before the logout complete after it.
C22_LoggedOutCatalogEmpty ==
    user = NoUser =>
        /\ files = << >>
        /\ searchTerm = << >>
        /\ currentView = "LANDING"

\* C23: in every reachable state the dashboard view is shown only while a
\* user is logged in: currentView = DASHBOARD implies that user is not
\* null, for every sequence and interleaving of login, register, logout and
\* get-started events, login calls that answer after a logout included.
C23_DashboardNeedsUser ==
    currentView = "DASHBOARD" => user # NoUser

\* two calls of AuthService were accepted, each set the user and started a
\* load of the catalog, and the dashboard shows for the user of the call
\* that answered last
C23_Witness ==
    /\ currentView = "DASHBOARD"
    /\ user # NoUser
    /\ Len(authCalls) = 2
    /\ \A i \in 1..2 : authCalls[i].phase = "done" /\ authCalls[i].ok
    /\ Len(loadCalls) = 2

(***************************************************************************)
(* The local store under overlapping calls: uploads and deletes in flight  *)
(* at the same time, localStorage accepting or refusing each write         *)
(***************************************************************************)
NextStore ==
    \/ \E id \in RandomIds, speed \in FastSpeeds :
         SubmitBatch(<<HeartScanFile>>, <<id>>, <<speed>>)
    \/ \E i \in 1..MaxSubmits : Tick(i)
    \/ \E i \in 1..MaxSubmits : RemoveTicket(i)
    \/ \E i \in 1..MaxSubmits, id \in RandomIds : Classified(i, AiError, id)
    \/ \E i \in 1..MaxSubmits, writeOk \in BOOLEAN : UploadSettle(i, writeOk)
    \/ \E id \in RandomIds : HandleDelete(id)
    \/ \E i \in 1..MaxDeletes, deleteOk \in BOOLEAN : DeleteSettle(i, deleteOk)

InitStore == InitUploads /\ ~cloud

SpecStore == InitStore /\ [][NextStore]_vars

\* no call of uploadFiles or deleteFile is waiting for its answer
AllReturned ==
    /\ \A i \in 1..Len(uploads) : uploads[i].call \notin {"classify", "persist"}
    /\ \A d \in 1..Len(deleteCalls) : deleteCalls[d].phase = "done"

\* a delete of the id was acknowledged
Deleted(id) ==
    \E d \in 1..Len(deleteCalls) :
        /\ deleteCalls[d].phase = "done"
        /\ deleteCalls[d].ok
        /\ deleteCalls[d].id = id

\* how often the row is in the persisted list
Occurrences(rows, row) == Cardinality({k \in 1..Len(rows) : rows[k] = row})

\* C24: with the local adapter overlapping uploadFiles and deleteFile calls
\* lose no update: once all calls have returned, the persisted list holds
\* the row of every record whose upload was acknowledged and whose id was
\* not deleted, exactly once; an acknowledged delete leaves no row of its
\* id, whatever was uploaded before it, and takes out nothing else; and a
\* row enters the list only as the one row an acknowledged upload appends
\* to all the rows that were there.
C24_NoLostUpdate ==
    /\ [](AllReturned =>
            \A i \in 1..Len(uploads) :
                (uploads[i].call = "done" /\ ~Deleted(uploads[i].record[1].id))
                => Occurrences(fileStore, LocalRow(uploads[i].record[1])) = 1)
    /\ [][/\ \A d \in 1..Len(deleteCalls) :
               (/\ deleteCalls[d].phase = "wait"
                /\ deleteCalls'[d].phase = "done"
                /\ deleteCalls'[d].ok)
               => /\ \A k \in 1..Len(fileStore') :
                        fileStore'[k].id # deleteCalls[d].id
                  /\ LosesExactly(fileStore, fileStore', deleteCalls[d].id)
          /\ \A i \in 1..Len(uploads) :
               (uploads[i].call = "persist" /\ uploads'[i].call = "done")
               => fileStore' = Append(fileStore, LocalRow(uploads[i].record[1]))
          /\ Len(fileStore') > Len(fileStore)
               => \E i \in 1..Len(uploads) :
                     uploads[i].call = "persist" /\ uploads'[i].call = "done"
          /\ Len(fileStore') < Len(fileStore)
               => \E d \in 1..Len(deleteCalls) :
                     /\ deleteCalls[d].phase = "wait"
                     /\ deleteCalls'[d].phase = "done"
                     /\ deleteCalls'[d].ok
          /\ Len(fileStore') = Len(fileStore) => fileStore' = fileStore]_vars

\* an upload and the delete of the record stored before it have returned:
\* the row of the upload is in the list, the row of the other record is not
C24_Witness ==
    /\ AllReturned
    /\ uploads # << >>
    /\ uploads[1].call = "done"
    /\ deleteCalls # << >>
    /\ Deleted(PriorFile.id)
    /\ ~Deleted(uploads[1].record[1].id)
    /\ fileStore = <<LocalRow(uploads[1].record[1])>>

(***************************************************************************)
(* The catalog and the local store through logins, logouts, uploads and    *)
(* deletes of one page                                                     *)
(***************************************************************************)
\* no call of AuthService or FileService waits for its answer, and no
\* ticket is on its way
Settled ==
    /\ \A c \in 1..Len(authCalls) : authCalls[c].phase = "done"
    /\ \A l \in 1..Len(loadCalls) : loadCalls[l].phase = "done"
    /\ \A i \in 1..Len(uploads) :
          /\ uploads[i].removal = "done"
          /\ uploads[i].call \in {"done", "failed"}
    /\ \A d \in 1..Len(deleteCalls) : deleteCalls[d].phase = "done"

\* a user who logs in, uploads and deletes one thing after the other: the
\* form is submitted,
LoginInTurn == Settled /\ HandleLogin(AdminCredentials)

\* a file is dropped or chosen (the tickets draw different ids),
SubmitInTurn(speed) ==
    Settled /\ SubmitBatch(<<HeartScanFile>>, <<Len(uploads) + 1>>, <<speed>>)

\* a delete button is clicked; Logout is clicked at any time
DeleteInTurn(id) == Settled /\ HandleDelete(id)

NextSync ==
    \/ HandleGetStarted
    \/ LoginInTurn
    \/ \E i \in 1..MaxAuthCalls : AuthSettle(i, TRUE)
    \/ HandleLogout
    \/ \E i \in 1..MaxAuthCalls, readOk \in BOOLEAN : LoadSettle(i, readOk)
    \/ \E speed \in FastSpeeds : SubmitInTurn(speed)
    \/ \E i \in 1..MaxSubmits : Tick(i)
    \/ \E i \in 1..MaxSubmits : RemoveTicket(i)
    \/ \E i \in 1..MaxSubmits, id \in RandomIds : Classified(i, AiError, id)
    \/ \E i \in 1..MaxSubmits, writeOk \in BOOLEAN : UploadSettle(i, writeOk)
    \/ \E id \in RandomIds : DeleteInTurn(id)
    \/ \E i \in 1..MaxDeletes, deleteOk \in BOOLEAN : DeleteSettle(i, deleteOk)

InitSync == Init /\ ~cloud

SpecSync == InitSync /\ [][NextSync]_vars

\* the identifiers of the records of a catalog or of the rows of a list
IdsOf(rows) == {rows[k].id : k \in 1..Len(rows)}

\* no catalog load, upload or delete call is in flight
NothingInFlight ==
    /\ \A l \in 1..Len(loadCalls) : loadCalls[l].phase = "done"
    /\ \A i \in 1..Len(uploads) : uploads[i].call \in {"done", "failed"}
    /\ \A d \in 1..Len(deleteCalls) : deleteCalls[d].phase = "done"

NoLoadFailed ==
    \A l \in 1..Len(loadCalls) : loadCalls[l].phase = "done" => loadCalls[l].ok

====
